---- MODULE Spec2Model ----
(***************************************************************************)
(* A model of odata-simple-client: the PathBuilder of src/path.rs (option  *)
(* map, percent-encoding, canonical query, build), the rate-limited        *)
(* execute of src/ratelimiting.rs and the fetch / deserialize_as pipeline  *)
(* of src/lib.rs.                                                          *)
(*                                                                         *)
(* Text is modelled as TLA+ strings, one character per byte (the modelled  *)
(* inputs are printable ASCII).  Four specifications share the module:     *)
(*   Spec         one PathBuilder, its option calls and build()            *)
(*   SpecLimiter  clones of one RateLimitedDataSource and their execute    *)
(*   SpecFetch    fetch / fetch_paged: request, dispatch, decoding         *)
(*   SpecDecode   deserialize_as on any response body                      *)
(***************************************************************************)
EXTENDS Integers, Sequences, FiniteSets

VARIABLES
    \* ---- PathBuilder (src/path.rs:53-58)
    base_path,       \* String
    resource_type,   \* String
    id,              \* Option<usize>: NoId or a number
    inner,           \* HashMap<&'static str, String>: a function on a set of keys
    \* ---- observation of the builder
    built,           \* what build() returned for the builder as it stands
    written,         \* per key, the logical (unencoded) text of the last call
    expand_calls,    \* the field lists of the expand calls, in call order
    ncalls,          \* number of builder calls made so far
    \* ---- RateLimitedDataSource (src/ratelimiting.rs:20-26) and its callers
    quota,           \* the Quota the source was constructed with
    limiters,        \* the RateLimiter instances in existence: the state of each
    handles,         \* the RateLimitedDataSource values: the limiter each points to
    now,             \* the limiter's clock, in ticks since construction
    task_pc,         \* per execute call: where the call stands
    task_handle,     \* per execute call: the RateLimitedDataSource it was made on
    admitted,        \* the admissions so far, in order: task, handle, limiter, time
    \* ---- DataSource (src/lib.rs:66-71), one fetch and its response
    datasource,      \* authority, base_path, scheme
    via,             \* the fetch is made on a DataSource or a RateLimitedDataSource
    kind,            \* GetRequest (fetch) or ListRequest (fetch_paged)
    pc,              \* where the fetch stands
    request_inner,   \* the options of the request as the caller left them
    sent,            \* the URIs a GET was issued for, in order
    response,        \* the response: the chunks of its body, and whether the stream breaks
    content,         \* the aggregated body
    outcome          \* what the fetch returned

builderVars == <<base_path, resource_type, id, inner, built, written, expand_calls, ncalls>>

limiterVars == <<quota, limiters, handles, now, task_pc, task_handle, admitted>>

fetchVars == <<datasource, via, kind, pc, request_inner, sent, response, content, outcome>>

vars == <<builderVars, limiterVars, fetchVars>>

-----------------------------------------------------------------------------
(* Bounds and input sets *)

\* Builder calls per behaviour.
MaxCalls == 3

\* Clock ticks in one second.
TicksPerSecond == 2
\* The largest N of per_second(N).
MaxPerSecond == 2
\* Clones made of the rate-limited source.
MaxClones == 1
\* Concurrent execute calls.
MaxTasks == 2
\* The clock stops here.
MaxTime == 2
\* Option calls made on a request before it is fetched.
MaxRequestCalls == 2
\* Chunks of a response body.
MaxChunks == 3

Resources == {"test_resource", "Dokument"}
BasePaths == {"/api", "/a b"}
Ids == {100}
TopCounts == {1, 2}
SkipCounts == {3}
OrderFields == {"date", "a%b c"}
FilterArgs ==
    {<<"id", c, "24">> :
        c \in {"Equal", "NotEqual", "GreaterThan", "GreaterOrEqual", "LessThan"}}
    \cup {<<"name", "NotEqual", "x">>, <<"a&b", "LessOrEqual", "c=d,e">>}
ExpandArgs == {<< >>, <<"A">>, <<"C">>, <<"A", "B">>}

-----------------------------------------------------------------------------
(* Text helpers: bytes, ordering, decimal rendering *)

\* Printable ASCII 0x20..0x7E in code order; position i holds the byte 31 + i
\* (the grave accent, 0x60, cannot be written in a TLA+ string: a tab holds its
\* place, and no modelled text contains either).
Ascii == " !\"#$%&'()*+,-./0123456789:;<=>?@ABCDEFGHIJKLMNOPQRSTUVWXYZ[\\]^_\tabcdefghijklmnopqrstuvwxyz{|}~"

CharAt(s, i) == SubSeq(s, i, i)

\* The byte value of each one-character string.
CodeTable ==
    [c \in {CharAt(Ascii, i) : i \in 1..Len(Ascii)} |->
        31 + (CHOOSE i \in 1..Len(Ascii) : CharAt(Ascii, i) = c)]

Code(c) == CodeTable[c]

\* str::cmp / String::cmp: bytewise lexicographic order.
RECURSIVE StrLess(_, _)
StrLess(a, b) ==
    IF a = "" THEN b # ""
    ELSE IF b = "" THEN FALSE
    ELSE IF Head(a) = Head(b) THEN StrLess(Tail(a), Tail(b))
    ELSE Code(Head(a)) < Code(Head(b))

\* u32::to_string / usize::to_string
RECURSIVE to_string(_)
to_string(n) ==
    IF n < 10 THEN CharAt("0123456789", n + 1)
    ELSE to_string(n \div 10) \o CharAt("0123456789", (n % 10) + 1)

\* [String]::join(sep)
RECURSIVE Join(_, _)
Join(seq, sep) ==
    IF seq = << >> THEN ""
    ELSE IF Len(seq) = 1 THEN seq[1]
    ELSE seq[1] \o sep \o Join(Tail(seq), sep)

\* The bytes of the modelled text.
Bytes == DOMAIN CodeTable

\* The concatenation of a sequence of sequences.
RECURSIVE Flatten(_)
Flatten(lists) ==
    IF lists = << >> THEN << >> ELSE lists[1] \o Flatten(Tail(lists))

\* urlencoding::encode: every byte except A-Z a-z 0-9 - _ . ~ becomes %XX
\* (upper-case hex).
Unreserved ==
    {c \in Bytes :
        LET n == Code(c) IN
            \/ n >= 48 /\ n <= 57
            \/ n >= 65 /\ n <= 90
            \/ n >= 97 /\ n <= 122
            \/ c \in {"-", "_", ".", "~"}}

HexDigit(d) == CharAt("0123456789ABCDEF", d + 1)

EncodeTable ==
    [c \in Bytes |->
        IF c \in Unreserved THEN c
        ELSE "%" \o HexDigit(Code(c) \div 16) \o HexDigit(Code(c) % 16)]

EncodeChar(c) == EncodeTable[c]

RECURSIVE Encode(_)
Encode(s) == IF s = "" THEN "" ELSE EncodeChar(Head(s)) \o Encode(Tail(s))

\* Vec<String>::sort: ascending by String::cmp (insertion into a sorted prefix).
RECURSIVE InsertSorted(_, _)
InsertSorted(x, seq) ==
    IF seq = << >> THEN <<x>>
    ELSE IF StrLess(x, seq[1]) THEN <<x>> \o seq
    ELSE <<seq[1]>> \o InsertSorted(x, Tail(seq))

RECURSIVE SortStrings(_)
SortStrings(seq) ==
    IF seq = << >> THEN << >>
    ELSE InsertSorted(seq[Len(seq)], SortStrings(SubSeq(seq, 1, Len(seq) - 1)))

-----------------------------------------------------------------------------
(* PathBuilder *)

NoId == [tag |-> "None"]
SomeId(n) == [tag |-> "Some", value |-> n]
NotBuilt == [tag |-> "NotBuilt"]
Ok(s) == [tag |-> "Ok", value |-> s]
Err(k) == [tag |-> "Err", kind |-> k]

EmptyMap == [k \in {} |-> ""]

\* HashMap::insert: the key's value is replaced, or the key is added.
MapInsert(m, k, v) == [x \in (DOMAIN m) \cup {k} |-> IF x = k THEN v ELSE m[x]]

DirectionStr(order) == IF order = "Descending" THEN "desc" ELSE "asc"

Comparisons == {"Equal", "NotEqual", "GreaterThan", "GreaterOrEqual", "LessThan", "LessOrEqual"}

ComparisonStr(c) ==
    CASE c = "Equal" -> "eq"
      [] c = "NotEqual" -> "ne"
      [] c = "GreaterThan" -> "gt"
      [] c = "GreaterOrEqual" -> "ge"
      [] c = "LessThan" -> "lt"
      [] c = "LessOrEqual" -> "le"

FormatStr(f) == IF f = "Xml" THEN "xml" ELSE "json"

InlineCountStr(v) == IF v = "None" THEN "none" ELSE "allpages"

\* The values the option calls store.
OrderByValue(field, order) == Encode(field \o " " \o DirectionStr(order))
CountValue(count) == Encode(to_string(count))
FormatValue(f) == FormatStr(f)
InlineCountValue(v) == Encode(InlineCountStr(v))
FilterValue(field, comparison, value) ==
    Encode(field \o " " \o ComparisonStr(comparison) \o " " \o value)

\* expand: the fields of one call, each encoded, joined by ",".
ExpandEncoded(fields) == Join([i \in 1..Len(fields) |-> Encode(fields[i])], ",")

\* entry("expand").and_modify(push ',' and the encoded list).or_insert(encoded)
ExpandValue(m, fields) ==
    IF "expand" \in DOMAIN m
    THEN m["expand"] \o "," \o ExpandEncoded(fields)
    ELSE ExpandEncoded(fields)

\* A filter call that composes with the filter already stored.
FilterStoredComposing(m, field, comparison, value) ==
    IF "filter" \in DOMAIN m
    THEN m["filter"] \o Encode(" and ") \o FilterValue(field, comparison, value)
    ELSE FilterValue(field, comparison, value)

\* The stored value after a filter call (the previous value is dropped).
FilterStored(m, field, comparison, value) == FilterValue(field, comparison, value)

\* A builder call that writes one key of the map.
SetOption(key, value, logical) ==
    /\ ncalls < MaxCalls
    /\ inner' = MapInsert(inner, key, value)
    /\ written' = MapInsert(written, key, logical)
    /\ ncalls' = ncalls + 1
    /\ built' = NotBuilt
    /\ UNCHANGED <<base_path, resource_type, id>>
    /\ UNCHANGED <<limiterVars, fetchVars>>

IdCall ==
    \E n \in Ids :
        /\ ncalls < MaxCalls
        /\ id' = SomeId(n)
        /\ ncalls' = ncalls + 1
        /\ built' = NotBuilt
        /\ UNCHANGED <<base_path, resource_type, inner, written, expand_calls>>
        /\ UNCHANGED <<limiterVars, fetchVars>>

BasePathCall ==
    \E b \in BasePaths :
        /\ ncalls < MaxCalls
        /\ base_path' = b
        /\ ncalls' = ncalls + 1
        /\ built' = NotBuilt
        /\ UNCHANGED <<resource_type, id, inner, written, expand_calls>>
        /\ UNCHANGED <<limiterVars, fetchVars>>

OrderBy ==
    \E field \in OrderFields, order \in {"Descending", "Ascending"} :
        /\ SetOption("orderby", OrderByValue(field, order),
                     field \o " " \o DirectionStr(order))
        /\ UNCHANGED expand_calls

Top ==
    \E count \in TopCounts :
        /\ SetOption("top", CountValue(count), to_string(count))
        /\ UNCHANGED expand_calls

Skip ==
    \E count \in SkipCounts :
        /\ SetOption("skip", CountValue(count), to_string(count))
        /\ UNCHANGED expand_calls

Format ==
    \E f \in {"Xml", "Json"} :
        /\ SetOption("format", FormatValue(f), FormatStr(f))
        /\ UNCHANGED expand_calls

InlineCount ==
    \E v \in {"None", "AllPages"} :
        /\ SetOption("inlinecount", InlineCountValue(v), InlineCountStr(v))
        /\ UNCHANGED expand_calls

Filter ==
    \E a \in FilterArgs :
        /\ SetOption("filter", FilterStored(inner, a[1], a[2], a[3]),
                     a[1] \o " " \o ComparisonStr(a[2]) \o " " \o a[3])
        /\ UNCHANGED expand_calls

Expand ==
    \E fields \in ExpandArgs :
        /\ SetOption("expand", ExpandValue(inner, fields), "")
        /\ expand_calls' = Append(expand_calls, fields)

\* The orders in which HashMap::iter may visit the keys of a map: any.
RECURSIVE Orders(_)
Orders(keys) ==
    IF keys = {} THEN {<< >>}
    ELSE UNION {{<<k>> \o rest : rest \in Orders(keys \ {k})} : k \in keys}

IterOrders(m) == Orders(DOMAIN m)

\* build() without its kv.sort(): the entries stay in iteration order.
SortKvOmitted(kv) == kv

\* A sort with the comparison turned around: descending.
SortKvDescending(kv) ==
    LET sorted == SortStrings(kv) IN
        [i \in 1..Len(sorted) |-> sorted[Len(sorted) + 1 - i]]

\* kv.sort()
SortKv(kv) == SortStrings(kv)

\* A serialization that encodes the values as well as the keys.
QueryEncodingValues(m, order) ==
    Join(SortKv([i \in 1..Len(order) |->
                    "$" \o Encode(order[i]) \o "=" \o Encode(m[order[i]])]), "&")

\* The query of build(): "$key=value" per entry in iteration order, sorted,
\* joined by "&".
Query(m, order) ==
    Join(SortKv([i \in 1..Len(order) |-> "$" \o Encode(order[i]) \o "=" \o m[order[i]]]), "&")

IdSuffix(i) == IF i = NoId THEN "" ELSE "(" \o Encode(to_string(i.value)) \o ")"

\* An assembly that drops the "?" of an empty query.
AssembleNoBareMark(base, resource, i, query) ==
    base \o "/" \o Encode(resource) \o IdSuffix(i)
        \o (IF query = "" THEN "" ELSE "?" \o query)

\* The text build() assembles before parsing it.
Assemble(base, resource, i, query) ==
    base \o "/" \o Encode(resource) \o IdSuffix(i) \o "?" \o query

\* str::parse::<PathAndQuery>: the bytes a path and a query may hold
\* (http::uri::PathAndQuery); any other byte is InvalidUri.
PathBytes ==
    {c \in Bytes :
        LET n == Code(c) IN
            \/ n = 33 \/ (n >= 36 /\ n <= 59) \/ n = 61
            \/ (n >= 64 /\ n <= 95) \/ (n >= 97 /\ n <= 122) \/ n = 124 \/ n = 126
            \/ c \in {"\"", "{", "}"}}

QueryBytes ==
    {c \in Bytes :
        LET n == Code(c) IN
            \/ n = 33 \/ (n >= 36 /\ n <= 59) \/ n = 61 \/ (n >= 63 /\ n <= 126)}

\* The first "?" ends the path; what follows is the query.
ValidPathAndQuery(s) ==
    LET mark == CHOOSE i \in 1..(Len(s) + 1) :
                    /\ i = Len(s) + 1 \/ CharAt(s, i) = "?"
                    /\ \A j \in 1..(i - 1) : CharAt(s, j) # "?"
    IN  \A i \in 1..Len(s) :
            \/ i = mark
            \/ i < mark /\ CharAt(s, i) \in PathBytes
            \/ i > mark /\ CharAt(s, i) \in QueryBytes

ParsePathAndQuery(s) == IF ValidPathAndQuery(s) THEN Ok(s) ELSE Err("Uri")

\* What build() may return: its result for some iteration order of the map.
BuildResults(base, resource, i, m) ==
    LET texts == {Assemble(base, resource, i, Query(m, order)) : order \in IterOrders(m)}
    IN  {ParsePathAndQuery(t) : t \in texts}

\* build(&self): the map is visited in some iteration order.
Build ==
    /\ built = NotBuilt
    /\ built' \in BuildResults(base_path, resource_type, id, inner)
    /\ UNCHANGED <<base_path, resource_type, id, inner, written, expand_calls, ncalls>>
    /\ UNCHANGED <<limiterVars, fetchVars>>

\* Filter (src/filter.rs), the builder's forerunner: the map of a Filter that
\* got the option calls the builder got.  A Filter has no format and no expand
\* and holds its texts unencoded.
FilterInner == [k \in (DOMAIN written) \ {"format", "expand"} |-> written[k]]

\* Filter::to_query: the entries sorted, "$<key>=<value>" with both parts
\* encoded, joined by "&".
to_query(m, order) ==
    LET keys == SortStrings(order) IN
        Join([i \in 1..Len(keys) |-> "$" \o Encode(keys[i]) \o "=" \o Encode(m[keys[i]])], "&")

\* PathBuilder::new_with_base
NewWithBase(base, resource) ==
    /\ id = NoId
    /\ base_path = base
    /\ resource_type = resource
    /\ inner = EmptyMap

\* PathBuilder::new
New(resource) == NewWithBase("", resource)

\* The builder is not in use.
BuilderIdle ==
    /\ New("")
    /\ built = NotBuilt
    /\ written = EmptyMap
    /\ expand_calls = << >>
    /\ ncalls = 0

-----------------------------------------------------------------------------
(* RateLimitedDataSource: one limiter, its clones, concurrent execute calls *)

\* Quota::per_second(n): n cells per second, one cell every 1s / n, burst n.
QuotaPerSecond(n) == [replenish_1_per |-> TicksPerSecond \div n, max_burst |-> n]

\* RateLimiter::direct(quota): no cell taken yet.
FreshLimiter == [tat |-> << >>]

\* governor's GCRA: the theoretical arrival time held by a limiter used at t0.
Tat(l, t0) == IF l.tat = << >> THEN t0 + quota.replenish_1_per ELSE l.tat[1]

\* The earliest time the next cell conforms.
EarliestTime(l, t0) ==
    LET e == Tat(l, t0) - quota.replenish_1_per * quota.max_burst
    IN  IF e < 0 THEN 0 ELSE e

\* The limiter after it let a cell through at t0.
Conformed(l, t0) ==
    [tat |-> << (IF Tat(l, t0) > t0 THEN Tat(l, t0) ELSE t0) + quota.replenish_1_per >>]

\* An execute that takes the limiter's answer without waiting for it.
UntilReadyNotAwaited(l, t0) == TRUE

\* rate_limiter.until_ready().await returns at t0: the wait ends only at a time
\* the limiter lets the cell through.
UntilReadyReturns(l, t0) == t0 >= EarliestTime(l, t0)

\* A clone with a limiter of its own, built from the same quota.
CloneWithOwnLimiter(h) ==
    [limiters |-> Append(limiters, FreshLimiter),
     handle |-> [rate_limiter |-> Len(limiters) + 1]]

\* #[derive(Clone)]: Arc::clone of rate_limiter, the same limiter.
CloneSource(h) ==
    [limiters |-> limiters, handle |-> [rate_limiter |-> handles[h].rate_limiter]]

Tasks == 1..MaxTasks

\* RateLimitedDataSource::new
NewRateLimited(q) ==
    /\ quota = q
    /\ limiters = <<FreshLimiter>>
    /\ handles = << [rate_limiter |-> 1] >>

\* RateLimitedDataSource::per_second
PerSecond(n) == NewRateLimited(QuotaPerSecond(n))

\* The rate-limited source is not in use.
LimiterIdle ==
    /\ PerSecond(1)
    /\ now = 0
    /\ task_pc = << >>
    /\ task_handle = << >>
    /\ admitted = << >>

Clone ==
    \E h \in 1..Len(handles) :
        /\ Len(handles) <= MaxClones
        /\ limiters' = CloneSource(h).limiters
        /\ handles' = Append(handles, CloneSource(h).handle)
        /\ UNCHANGED <<quota, now, task_pc, task_handle, admitted>>
        /\ UNCHANGED <<builderVars, fetchVars>>

\* An execute that goes to the wrapped DataSource at once.
ExecuteEntryUnlimited == "execute"

\* The first statement of execute: self.rate_limiter.until_ready().await
ExecuteEntry == "until_ready"

\* execute is called on some clone: the call waits on until_ready. The calls
\* are numbered in the order they are made.
ExecuteCall ==
    \E t \in Tasks, h \in 1..Len(handles) :
        /\ task_pc[t] = "idle"
        /\ \A u \in 1..(t - 1) : task_pc[u] # "idle"
        /\ task_pc' = [task_pc EXCEPT ![t] = ExecuteEntry]
        /\ task_handle' = [task_handle EXCEPT ![t] = h]
        /\ UNCHANGED <<quota, limiters, handles, now, admitted>>
        /\ UNCHANGED <<builderVars, fetchVars>>

\* until_ready returns: the limiter of the call's handle takes the cell.
Admit ==
    \E t \in Tasks :
        /\ task_pc[t] = "until_ready"
        /\ LET l == handles[task_handle[t]].rate_limiter IN
               /\ UntilReadyReturns(limiters[l], now)
               /\ limiters' = [limiters EXCEPT ![l] = Conformed(limiters[l], now)]
               /\ admitted' = Append(admitted,
                      [task |-> t, handle |-> task_handle[t], limiter |-> l, time |-> now])
        /\ task_pc' = [task_pc EXCEPT ![t] = "execute"]
        /\ UNCHANGED <<quota, handles, now, task_handle>>
        /\ UNCHANGED <<builderVars, fetchVars>>

\* An exit that gives the cell back: the arrival time is moved one period
\* earlier.
LimiterOnExitRefunded(l) ==
    IF l.tat = << >> THEN l ELSE [tat |-> << l.tat[1] - quota.replenish_1_per >>]

\* What leaving execute does to the limiter of the call, by a return or by the
\* drop of its future: nothing, execute has no statement for it.
LimiterOnExit(l) == l

\* self.datasource.execute(request).await ends, with a response or an error.
Delegate ==
    \E t \in Tasks, result \in {"Ok", "Err"} :
        /\ task_pc[t] = "execute"
        /\ task_pc' = [task_pc EXCEPT ![t] = result]
        /\ limiters' = [limiters EXCEPT ![handles[task_handle[t]].rate_limiter] =
                            LimiterOnExit(@)]
        /\ UNCHANGED <<quota, handles, now, task_handle, admitted>>
        /\ UNCHANGED <<builderVars, fetchVars>>

\* The caller drops the future of a pending execute.
Cancel ==
    \E t \in Tasks :
        /\ task_pc[t] \in {"until_ready", "execute"}
        /\ task_pc' = [task_pc EXCEPT ![t] = "cancelled"]
        /\ limiters' = [limiters EXCEPT ![handles[task_handle[t]].rate_limiter] =
                            LimiterOnExit(@)]
        /\ UNCHANGED <<quota, handles, now, task_handle, admitted>>
        /\ UNCHANGED <<builderVars, fetchVars>>

Tick ==
    /\ now < MaxTime
    /\ now' = now + 1
    /\ UNCHANGED <<quota, limiters, handles, task_pc, task_handle, admitted>>
    /\ UNCHANGED <<builderVars, fetchVars>>

-----------------------------------------------------------------------------
(* DataSource: fetch, fetch_paged, execute, deserialize_as *)

\* The byte values of an ASCII text.
BytesOf(text) == [i \in 1..Len(text) |-> Code(CharAt(text, i))]

\* Pieces response bodies are made of: three pieces of JSON and the two bytes
\* of U+00E6, 0xC3 0xA6, which are text only together and in this order.
ChunkSamples ==
    {BytesOf("{\"value\":["), BytesOf("{\"titel\":\"x\"}"), BytesOf("]}"), <<195>>, <<166>>}

RECURSIVE SeqsUpTo(_, _)
SeqsUpTo(S, n) ==
    IF n = 0 THEN {<< >>}
    ELSE LET shorter == SeqsUpTo(S, n - 1) IN
             shorter \cup {Append(q, x) : q \in shorter, x \in S}

\* A response: the chunks its body stream yields, and whether the stream
\* fails after them instead of ending.
Responses == [chunks : SeqsUpTo(ChunkSamples, MaxChunks), broken : BOOLEAN]

\* The responses the transport answers a fetch with.
FetchResponses ==
    {[chunks |-> c, broken |-> b] :
        c \in {<< >>, <<BytesOf("{\"titel\":\"x\"}")>>, <<<<195>>>>}, b \in BOOLEAN}
    \cup {[chunks |-> <<BytesOf("{\"value\":["), BytesOf("]}")>>, broken |-> FALSE]}

DataSources ==
    {[authority |-> "oda.ft.dk", base_path |-> b, scheme |-> "https"] : b \in {"", "/api", "/a b"}}

NoResponse == [tag |-> "None"]
NoOutcome == [tag |-> "None"]

\* Error::Serde(e, content)
SerdeError(e, text) == [tag |-> "Err", kind |-> "Serde", error |-> e, raw |-> text]

\* A body taken from the first chunk alone (Buf::chunk).
AggregateFirstChunk(chunks) == IF chunks = << >> THEN << >> ELSE chunks[1]

\* hyper::body::aggregate, then body.reader(): all the chunks, in order.
Aggregate(chunks) == Flatten(chunks)

\* The length of the UTF-8 sequence a byte leads; 0 when it leads none.
Utf8Width(b) ==
    IF b < 128 THEN 1
    ELSE IF b >= 194 /\ b <= 223 THEN 2
    ELSE IF b >= 224 /\ b <= 239 THEN 3
    ELSE IF b >= 240 /\ b <= 244 THEN 4
    ELSE 0

\* The range of the second byte after a lead byte.
Utf8Second(lead, b) ==
    CASE lead = 224 -> b >= 160 /\ b <= 191
      [] lead = 237 -> b >= 128 /\ b <= 159
      [] lead = 240 -> b >= 144 /\ b <= 191
      [] lead = 244 -> b >= 128 /\ b <= 143
      [] OTHER -> b >= 128 /\ b <= 191

RECURSIVE ValidUtf8(_)
ValidUtf8(bytes) ==
    IF bytes = << >> THEN TRUE
    ELSE LET w == Utf8Width(bytes[1]) IN
             /\ w > 0
             /\ Len(bytes) >= w
             /\ w >= 2 => Utf8Second(bytes[1], bytes[2])
             /\ \A i \in 3..w : bytes[i] >= 128 /\ bytes[i] <= 191
             /\ ValidUtf8(SubSeq(bytes, w + 1, Len(bytes)))

\* A decoding that keeps going on bytes that are no text.
ReadToStringLossy(bytes) == Ok(bytes)

\* read_to_string(&mut content): the bytes as text, or an io::Error
\* (InvalidData), which ? turns into Error::Io.
ReadToString(bytes) == IF ValidUtf8(bytes) THEN Ok(bytes) ELSE Err("Io")

\* The target of the decoding: T for fetch, Page<T> for fetch_paged; T is the
\* struct Dokument { titel: String } of the documentation.
Shape(k) == IF k = "List" THEN "Page" ELSE "Dokument"

\* serde_json::from_str over the modelled bodies: the texts it accepts for a
\* shape, and the JSON texts, of whatever shape.
Accepted(shape) ==
    IF shape = "Page"
    THEN {BytesOf("{\"value\":[]}"), BytesOf("{\"value\":[{\"titel\":\"x\"}]}")}
    ELSE {BytesOf("{\"titel\":\"x\"}")}

JsonTexts == Accepted("Page") \cup Accepted("Dokument")

\* The category of the serde_json::Error for a text that is not accepted.
JsonError(shape, text) ==
    IF text \in JsonTexts THEN "Data"
    ELSE IF \E j \in JsonTexts : Len(text) < Len(j) /\ SubSeq(j, 1, Len(text)) = text THEN "Eof"
    ELSE "Syntax"

\* A decoding that answers an empty value for a text it does not accept.
FromStrOrDefault(shape, text) ==
    IF text \in Accepted(shape) THEN [tag |-> "Ok", value |-> text]
    ELSE [tag |-> "Ok", value |-> << >>]

\* serde_json::from_str(&content).map_err(|e| Error::Serde(e, content))
FromStr(shape, text) ==
    IF text \in Accepted(shape) THEN [tag |-> "Ok", value |-> text]
    ELSE SerdeError(JsonError(shape, text), text)

\* A fetch that keeps the format the request carries.
ForcedFormatIfAbsent(m) ==
    IF "format" \in DOMAIN m THEN m ELSE MapInsert(m, "format", FormatValue("Json"))

\* Into::<PathBuilder>::into(request).format(Format::Json)
ForcedFormat(m) == MapInsert(m, "format", FormatValue("Json"))

\* Uri::builder().scheme(..).authority(..).path_and_query(..).build()
UriOf(ds, path_and_query) == ds.scheme \o "://" \o ds.authority \o path_and_query

\* An option call on the request: GetRequest has format and expand, ListRequest
\* has them all (src/lib.rs:249-263, 287-358).
RequestCall(A) ==
    /\ pc = "request"
    /\ ncalls < MaxRequestCalls
    /\ A

\* fetch(request) / fetch_paged(request): the format is forced, then execute.
FetchCall ==
    /\ pc = "request"
    /\ request_inner' = inner
    /\ inner' = ForcedFormat(inner)
    /\ written' = MapInsert(written, "format", FormatStr("Json"))
    /\ pc' = IF via = "RateLimited" THEN "until_ready" ELSE "execute"
    /\ UNCHANGED <<base_path, resource_type, id, built, expand_calls, ncalls>>
    /\ UNCHANGED <<datasource, via, kind, sent, response, content, outcome>>
    /\ UNCHANGED limiterVars

\* RateLimitedDataSource::execute: until_ready returns.
AdmitFetch ==
    /\ pc = "until_ready"
    /\ UntilReadyReturns(limiters[handles[1].rate_limiter], now)
    /\ limiters' = [limiters EXCEPT ![handles[1].rate_limiter] = Conformed(@, now)]
    /\ admitted' = Append(admitted,
           [task |-> 0, handle |-> 1, limiter |-> handles[1].rate_limiter, time |-> now])
    /\ pc' = "execute"
    /\ UNCHANGED <<quota, handles, now, task_pc, task_handle>>
    /\ UNCHANGED <<datasource, via, kind, request_inner, sent, response, content, outcome>>
    /\ UNCHANGED builderVars

\* An execute that leaves the builder the base path it came with.
ExecuteBasePathOwn(ds, own) == own

\* request.into().base_path(self.base_path.clone()): the base path the builder
\* is given, whatever base path it came with.
ExecuteBasePath(ds, own) == ds.base_path

\* DataSource::execute up to client.get(uri): the base path is set, the path
\* is built, and the GET is issued unless build() failed.
Execute ==
    /\ pc = "execute"
    /\ base_path' = ExecuteBasePath(datasource, base_path)
    /\ built' \in BuildResults(base_path', resource_type, id, inner)
    /\ IF built'.tag = "Ok"
       THEN /\ sent' = Append(sent, UriOf(datasource, built'.value))
            /\ pc' = "get"
            /\ outcome' = outcome
       ELSE /\ sent' = sent
            /\ pc' = "done"
            /\ outcome' = Err("Uri")
    /\ UNCHANGED <<resource_type, id, inner, written, expand_calls, ncalls>>
    /\ UNCHANGED <<datasource, via, kind, request_inner, response, content>>
    /\ UNCHANGED limiterVars

\* client.get(uri).await ends: a response, or a hyper::Error.
Respond ==
    /\ pc = "get"
    /\ \/ \E r \in FetchResponses :
              /\ response' = r
              /\ pc' = "response"
              /\ outcome' = outcome
       \/ /\ response' = response
          /\ pc' = "done"
          /\ outcome' = Err("Hyper")
    /\ UNCHANGED <<datasource, via, kind, request_inner, sent, content>>
    /\ UNCHANGED <<builderVars, limiterVars>>

\* deserialize_as: hyper::body::aggregate(response).await?
AggregateBody ==
    /\ pc = "response"
    /\ IF response.broken
       THEN /\ pc' = "done"
            /\ outcome' = Err("Hyper")
            /\ content' = content
       ELSE /\ pc' = "aggregated"
            /\ outcome' = outcome
            /\ content' = Aggregate(response.chunks)
    /\ UNCHANGED <<datasource, via, kind, request_inner, sent, response>>
    /\ UNCHANGED <<builderVars, limiterVars>>

\* deserialize_as: read_to_string, then serde_json::from_str.
ReadAndParse ==
    /\ pc = "aggregated"
    /\ pc' = "done"
    /\ outcome' = IF ReadToString(content).tag = "Ok"
                  THEN FromStr(Shape(kind), ReadToString(content).value)
                  ELSE ReadToString(content)
    /\ UNCHANGED <<datasource, via, kind, request_inner, sent, response, content>>
    /\ UNCHANGED <<builderVars, limiterVars>>

\* No fetch is under way.
FetchIdle ==
    /\ datasource = [authority |-> "oda.ft.dk", base_path |-> "", scheme |-> "https"]
    /\ via = "DataSource"
    /\ kind = "None"
    /\ pc = "idle"
    /\ request_inner = EmptyMap
    /\ sent = << >>
    /\ response = NoResponse
    /\ content = << >>
    /\ outcome = NoOutcome

-----------------------------------------------------------------------------
(* The specifications *)

\* GetRequest::new(resource_type, id) or ListRequest::new(resource_type), to
\* be fetched on a DataSource or on a RateLimitedDataSource::per_second(1).
InitFetch ==
    /\ \E resource \in {"Dokument"}, k \in {"Get", "List"} :
           /\ kind = k
           /\ base_path = ""
           /\ resource_type = resource
           /\ inner = EmptyMap
           /\ id \in (IF k = "Get" THEN {SomeId(n) : n \in Ids} ELSE {NoId})
    /\ built = NotBuilt
    /\ written = EmptyMap
    /\ expand_calls = << >>
    /\ ncalls = 0
    /\ datasource \in DataSources
    /\ via \in {"DataSource", "RateLimited"}
    /\ pc = "request"
    /\ request_inner = EmptyMap
    /\ sent = << >>
    /\ response = NoResponse
    /\ content = << >>
    /\ outcome = NoOutcome
    /\ LimiterIdle

NextFetch ==
    \/ RequestCall(Format)
    \/ RequestCall(Expand)
    \/ kind = "List" /\ RequestCall(OrderBy)
    \/ kind = "List" /\ RequestCall(Top)
    \/ kind = "List" /\ RequestCall(Skip)
    \/ kind = "List" /\ RequestCall(InlineCount)
    \/ kind = "List" /\ RequestCall(Filter)
    \/ FetchCall
    \/ AdmitFetch
    \/ Execute
    \/ Respond
    \/ AggregateBody
    \/ ReadAndParse

SpecFetch == InitFetch /\ [][NextFetch]_vars

\* deserialize_as alone: a response of either fetch is decoded.
InitDecode ==
    /\ response \in Responses
    /\ kind \in {"Get", "List"}
    /\ pc = "response"
    /\ datasource = [authority |-> "oda.ft.dk", base_path |-> "", scheme |-> "https"]
    /\ via = "DataSource"
    /\ request_inner = EmptyMap
    /\ sent = << >>
    /\ content = << >>
    /\ outcome = NoOutcome
    /\ BuilderIdle
    /\ LimiterIdle

NextDecode ==
    \/ AggregateBody
    \/ ReadAndParse

SpecDecode == InitDecode /\ [][NextDecode]_vars

InitLimiter ==
    /\ \E n \in 1..MaxPerSecond : n <= TicksPerSecond /\ PerSecond(n)
    /\ now = 0
    /\ task_pc = [t \in Tasks |-> "idle"]
    /\ task_handle = [t \in Tasks |-> 1]
    /\ admitted = << >>
    /\ BuilderIdle
    /\ FetchIdle

NextLimiter ==
    \/ Clone
    \/ ExecuteCall
    \/ Admit
    \/ Delegate
    \/ Cancel
    \/ Tick

SpecLimiter == InitLimiter /\ [][NextLimiter]_vars

Init ==
    /\ \E resource \in Resources : New(resource)
    /\ built = NotBuilt
    /\ written = EmptyMap
    /\ expand_calls = << >>
    /\ ncalls = 0
    /\ LimiterIdle
    /\ FetchIdle

Next ==
    \/ IdCall
    \/ BasePathCall
    \/ OrderBy
    \/ Top
    \/ Skip
    \/ Format
    \/ InlineCount
    \/ Filter
    \/ Expand
    \/ Build

Spec == Init /\ [][Next]_vars

-----------------------------------------------------------------------------
(* Reading a built path-and-query back *)

\* The first position at or after i where s holds c, 0 when there is none.
RECURSIVE IndexFrom(_, _, _)
IndexFrom(s, c, i) ==
    IF i > Len(s) THEN 0
    ELSE IF CharAt(s, i) = c THEN i
    ELSE IndexFrom(s, c, i + 1)

IndexOf(s, c) == IndexFrom(s, c, 1)

StartsWith(s, p) == Len(s) >= Len(p) /\ SubSeq(s, 1, Len(p)) = p

After(s, i) == SubSeq(s, i + 1, Len(s))

RECURSIVE SplitOn(_, _)
SplitOn(s, sep) ==
    LET i == IndexOf(s, sep) IN
        IF i = 0 THEN <<s>>
        ELSE <<SubSeq(s, 1, i - 1)>> \o SplitOn(After(s, i), sep)

\* The text after the first "?" of a built string.
QueryOf(s) == After(s, IndexOf(s, "?"))

\* The "&"-separated segments of a query; an empty query has none.
Segments(q) == IF q = "" THEN << >> ELSE SplitOn(q, "&")

\* The key of a segment "$<key>=<value>" and its value.
SegKey(seg) == SubSeq(seg, 2, IndexOf(seg, "=") - 1)
SegValue(seg) == After(seg, IndexOf(seg, "="))

WellFormedSeg(seg) == StartsWith(seg, "$") /\ IndexOf(seg, "=") > 2

BuiltOk == built.tag = "Ok"
BuiltSegments == Segments(QueryOf(built.value))

RECURSIVE ParseDecimal(_)
ParseDecimal(s) ==
    IF s = "" THEN 0
    ELSE 10 * ParseDecimal(SubSeq(s, 1, Len(s) - 1))
         + (IndexOf("0123456789", CharAt(s, Len(s))) - 1)

\* No builder call but option-setting ones was made.
OnlyOptionCalls == id = NoId /\ base_path = ""

-----------------------------------------------------------------------------
(* C1 *)

\* C1: build() returns the same string whatever the order of the calls that
\* left the map with its final values: the calls decide only the order in
\* which the map is visited, and for every visiting order of the final map
\* build() gives the result it gave; so does to_query() on a Filter that got
\* the same calls.
C1_BuildIndependentOfCallOrder ==
    built # NotBuilt =>
        /\ BuildResults(base_path, resource_type, id, inner) = {built}
        /\ Cardinality({to_query(FilterInner, order) : order \in IterOrders(FilterInner)}) = 1

\* Non-expand calls, one of them overwritten, two keys left, then build().
C1_Witness ==
    /\ BuiltOk
    /\ OnlyOptionCalls
    /\ "expand" \notin DOMAIN inner
    /\ Cardinality(DOMAIN inner) = 2
    /\ ncalls = 3

(* C2 *)

\* C2: with two or more keys, the query of build(), and that of to_query() on
\* a Filter that got the same calls, holds one segment "$<key>=<value>" per
\* key, joined by "&", with the keys in strictly ascending order; top(2),
\* skip(3), order_by("date", ascending) gives $orderby=date%20asc&$skip=3&$top=2.
C2_KeysStrictlyAscending ==
    (BuiltOk /\ Cardinality(DOMAIN inner) >= 2) =>
        LET segs == BuiltSegments IN
            /\ Len(segs) = Cardinality(DOMAIN inner)
            /\ \A i \in 1..Len(segs) :
                   /\ WellFormedSeg(segs[i])
                   /\ SegKey(segs[i]) \in DOMAIN inner
                   /\ SegValue(segs[i]) = inner[SegKey(segs[i])]
            /\ \A i, j \in 1..Len(segs) :
                   i < j => StrLess(SegKey(segs[i]), SegKey(segs[j]))
            /\ (/\ OnlyOptionCalls
                /\ DOMAIN written = {"top", "skip", "orderby"}
                /\ written["top"] = "2"
                /\ written["skip"] = "3"
                /\ written["orderby"] = "date asc")
               => QueryOf(built.value) = "$orderby=date%20asc&$skip=3&$top=2"
            /\ Cardinality(DOMAIN FilterInner) >= 2 =>
                   \A query \in {to_query(FilterInner, order) : order \in IterOrders(FilterInner)} :
                       LET fsegs == Segments(query) IN
                           /\ Len(fsegs) = Cardinality(DOMAIN FilterInner)
                           /\ \A i \in 1..Len(fsegs) :
                                  /\ WellFormedSeg(fsegs[i])
                                  /\ SegKey(fsegs[i]) \in DOMAIN FilterInner
                                  /\ SegValue(fsegs[i]) = Encode(FilterInner[SegKey(fsegs[i])])
                           /\ \A i, j \in 1..Len(fsegs) :
                                  i < j => StrLess(SegKey(fsegs[i]), SegKey(fsegs[j]))
                           /\ (/\ DOMAIN FilterInner = {"top", "skip", "orderby"}
                               /\ FilterInner["top"] = "2"
                               /\ FilterInner["skip"] = "3"
                               /\ FilterInner["orderby"] = "date asc")
                              => query = "$orderby=date%20asc&$skip=3&$top=2"

\* The example of the test: top(2), skip(3), order_by("date", Ascending).
C2_Witness ==
    /\ BuiltOk
    /\ resource_type = "test_resource"
    /\ OnlyOptionCalls
    /\ DOMAIN written = {"top", "skip", "orderby"}
    /\ written["top"] = "2"
    /\ written["skip"] = "3"
    /\ written["orderby"] = "date asc"

(* C3 *)

\* C3: after one or more expand calls the stored value is the comma-join of
\* the encoded fields of all the calls, in call order, for every field list,
\* a list with no fields included.
C3_ExpandIsJoinOfAllFields ==
    expand_calls # << >> =>
        /\ "expand" \in DOMAIN inner
        /\ inner["expand"] =
               LET fields == Flatten(expand_calls) IN
                   Join([i \in 1..Len(fields) |-> Encode(fields[i])], ",")

(* C4 *)

\* The stored form of the logical text of a call for a key.
StoredForm(key, text) == IF key = "format" THEN text ELSE Encode(text)

\* C4: every key but expand holds the value of the last call for it, and the
\* query shows that value alone; a second filter replaces the first.
C4_LastWriteWins ==
    /\ DOMAIN inner = DOMAIN written
    /\ \A k \in (DOMAIN inner) \ {"expand"} : inner[k] = StoredForm(k, written[k])
    /\ BuiltOk =>
           LET segs == BuiltSegments IN
               \A k \in (DOMAIN inner) \ {"expand"} :
                   /\ Cardinality({i \in 1..Len(segs) : SegKey(segs[i]) = k}) = 1
                   /\ \E i \in 1..Len(segs) :
                          segs[i] = "$" \o k \o "=" \o StoredForm(k, written[k])
    /\ (BuiltOk /\ "filter" \in DOMAIN written /\ written["filter"] = "name ne x")
           => \E i \in 1..Len(BuiltSegments) :
                  BuiltSegments[i] = "$filter=name%20ne%20x"

\* Two filter calls and nothing else, then build().
C4_Witness ==
    /\ BuiltOk
    /\ OnlyOptionCalls
    /\ ncalls = 2
    /\ DOMAIN inner = {"filter"}
    /\ written["filter"] = "name ne x"

(* C5 *)

-----------------------------------------------------------------------------
(* C6 *)

\* C6: all clones share one limiter: the k-th admission, through whatever
\* clone, comes no sooner than one quota allows (k is at most the burst plus
\* the cells replenished by then), and no clone has a limiter of its own.
C6_ClonesShareOneQuota ==
    /\ Len(limiters) = 1
    /\ \A h \in 1..Len(handles) : handles[h].rate_limiter = 1
    /\ \A k \in 1..Len(admitted) :
           k <= quota.max_burst + (admitted[k].time \div quota.replenish_1_per)
    /\ Len(admitted) <= quota.max_burst + (now \div quota.replenish_1_per)

\* More admissions than the burst, through the source and through a clone.
C6_Witness ==
    /\ Len(admitted) > quota.max_burst
    /\ \E i, j \in 1..Len(admitted) :
           admitted[i].handle = 1 /\ admitted[j].handle > 1

(* C7 *)

\* C7: under per_second(1), of the fetches issued on a new source and its
\* clones, the second to be admitted is admitted at least one second after the
\* first, whichever clones the two calls were made on and however the calls
\* interleave.
C7_OnePerSecondSpacing ==
    (quota = QuotaPerSecond(1) /\ Len(admitted) >= 2) =>
        admitted[2].time - admitted[1].time >= TicksPerSecond

\* Two admissions under per_second(1), made on two different clones.
C7_Witness ==
    /\ quota = QuotaPerSecond(1)
    /\ Len(admitted) >= 2
    /\ admitted[1].handle # admitted[2].handle

-----------------------------------------------------------------------------
(* C8 *)

\* C8: once fetch or fetch_paged was called, on a DataSource or on a
\* RateLimitedDataSource, the builder holds format = json whatever format the
\* request carried, every other option is as the caller set it, and the query
\* of the URI sent holds exactly one $format, $format=json, beside one segment
\* per other option with the caller's value.
C8_FetchForcesJson ==
    pc \notin {"idle", "request"} =>
        /\ DOMAIN inner = (DOMAIN request_inner) \cup {"format"}
        /\ inner["format"] = "json"
        /\ \A k \in (DOMAIN request_inner) \ {"format"} : inner[k] = request_inner[k]
        /\ sent # << >> =>
               LET segs == Segments(QueryOf(sent[1]))
                   keys == [i \in 1..Len(segs) |->
                               IF WellFormedSeg(segs[i]) THEN SegKey(segs[i]) ELSE ""]
                   holding(k) == {i \in 1..Len(segs) : keys[i] = k}
               IN  /\ Len(sent) = 1
                   /\ Len(segs) = Cardinality((DOMAIN request_inner) \cup {"format"})
                   /\ Cardinality(holding("format")) = 1
                   /\ \E i \in 1..Len(segs) : segs[i] = "$format=json"
                   /\ \A k \in (DOMAIN request_inner) \ {"format"} :
                          /\ Cardinality(holding(k)) = 1
                          /\ \E i \in 1..Len(segs) :
                                 segs[i] = "$" \o k \o "=" \o request_inner[k]

\* A ListRequest with format(Xml) and top, fetched on a rate-limited source.
C8_Witness ==
    /\ sent # << >>
    /\ via = "RateLimited"
    /\ kind = "List"
    /\ DOMAIN request_inner = {"format", "top"}
    /\ request_inner["format"] = "xml"

(* C9 *)

\* The bytes of the body of the response, all of them.
WholeBody == Flatten(response.chunks)

\* C9: a body that is text but not JSON of the target shape gives a parse
\* error that carries the JSON error and, as raw text, the whole body.
C9_ParseErrorCarriesWholeBody ==
    (/\ pc = "done"
     /\ ~response.broken
     /\ ValidUtf8(WholeBody)
     /\ WholeBody \notin Accepted(Shape(kind)))
    => /\ outcome.tag = "Err"
       /\ outcome.kind = "Serde"
       /\ outcome.error \in {"Syntax", "Data", "Eof"}
       /\ outcome.raw = WholeBody
       /\ Len(outcome.raw) = Len(WholeBody)

\* A parse error for a body of several chunks.
C9_Witness ==
    /\ pc = "done"
    /\ outcome.tag = "Err"
    /\ outcome.kind = "Serde"
    /\ Len(response.chunks) >= 2
    /\ outcome.raw # << >>

(* C10 *)

\* C10: the error kind tells the cause.  Bytes that are no UTF-8 give the
\* kind Io and nothing else gives it; text that is not JSON of the shape gives
\* Serde; a body stream that fails gives Hyper.
C10_ErrorKindTellsCause ==
    pc = "done" =>
        /\ (~response.broken /\ ~ValidUtf8(WholeBody)) => outcome = Err("Io")
        /\ (outcome.tag = "Err" /\ outcome.kind = "Io")
               => (~response.broken /\ ~ValidUtf8(WholeBody))
        /\ (outcome.tag = "Err" /\ outcome.kind = "Serde")
               => /\ ~response.broken
                  /\ ValidUtf8(WholeBody)
                  /\ WholeBody \notin Accepted(Shape(kind))
        /\ response.broken <=> outcome = Err("Hyper")

\* A body cut inside a character: the text-decode failure.
C10_Witness ==
    /\ pc = "done"
    /\ outcome = Err("Io")
    /\ response.chunks = <<BytesOf("{\"titel\":\"x\"}"), <<195>>>>

-----------------------------------------------------------------------------
(* C11 *)

\* The admissions the limiter gave to the execute call of task t.
AdmissionsOf(t) == {k \in 1..Len(admitted) : admitted[k].task = t}

\* The execute calls that reached self.datasource.execute.
Dispatched == {t \in Tasks : task_pc[t] \in {"execute", "Ok", "Err"}}

\* C11: an execute call that reached the wrapped DataSource's execute, on
\* whatever clone, holds exactly one admission of the limiter, given to that
\* call on that clone no later than now; a call still waiting holds none, and
\* no call holds two, so no admission serves two dispatches.
C11_AdmissionBeforeDispatch ==
    /\ \A t \in Dispatched :
           /\ Cardinality(AdmissionsOf(t)) = 1
           /\ \A k \in AdmissionsOf(t) :
                  /\ admitted[k].handle = task_handle[t]
                  /\ admitted[k].limiter = handles[task_handle[t]].rate_limiter
                  /\ admitted[k].time <= now
    /\ \A t \in Tasks :
           /\ task_pc[t] \in {"idle", "until_ready"} => AdmissionsOf(t) = {}
           /\ Cardinality(AdmissionsOf(t)) <= 1
    /\ \A k \in 1..Len(admitted) : admitted[k].task \in Tasks

\* Two calls on different clones came back from the transport, each with its
\* own admission.
C11_Witness ==
    /\ \E t1, t2 \in Tasks :
           /\ t1 # t2
           /\ task_pc[t1] = "Ok"
           /\ task_pc[t2] = "Err"
           /\ task_handle[t1] # task_handle[t2]
    /\ Len(admitted) = 2

(* C12 *)

\* The admissions given by limiter i, in the order they were given.
AdmissionsBy(i) == SelectSeq(admitted, LAMBDA a : a.limiter = i)

\* The arrival time a limiter holds when it gave the first n of the
\* admissions adm and none was given back.
RECURSIVE TatKept(_, _)
TatKept(adm, n) ==
    IF n = 1 THEN adm[1].time + 2 * quota.replenish_1_per
    ELSE LET before == TatKept(adm, n - 1) IN
             (IF before > adm[n].time THEN before ELSE adm[n].time) + quota.replenish_1_per

\* The calls that were admitted and then cancelled or failed.
LostAfterAdmission ==
    {t \in Tasks : task_pc[t] \in {"cancelled", "Err"} /\ AdmissionsOf(t) # {}}

\* C12: a cell taken at admission is never given back.  Every limiter holds
\* the arrival time of all the admissions it gave, those of calls cancelled
\* or failed afterwards included, and it still admits: its next cell conforms
\* no later than one period after its last admission.
C12_TokenNotRefunded ==
    \A i \in 1..Len(limiters) :
        LET adm == AdmissionsBy(i) IN
            IF adm = << >>
            THEN /\ limiters[i] = FreshLimiter
                 /\ UntilReadyReturns(limiters[i], now)
            ELSE /\ limiters[i].tat = << TatKept(adm, Len(adm)) >>
                 /\ EarliestTime(limiters[i], now)
                        <= adm[Len(adm)].time + quota.replenish_1_per
                 /\ \A k \in 1..Len(adm) :
                        k <= quota.max_burst + (adm[k].time \div quota.replenish_1_per)

\* A call cancelled after its admission, a call failed after its admission
\* and nothing given back: a third call, were it made now, would wait.
C12_Witness ==
    /\ \E t1, t2 \in LostAfterAdmission :
           task_pc[t1] = "cancelled" /\ task_pc[t2] = "Err"
    /\ ~UntilReadyReturns(limiters[1], now)

(* C13 *)

\* Percent-decoding: "%XY" with two hex digits gives the byte 16 * X + Y, any
\* other byte itself.
HexValue(c) == IndexOf("0123456789ABCDEF", c) - 1

RECURSIVE Decode(_)
Decode(s) ==
    IF s = "" THEN ""
    ELSE IF /\ Head(s) = "%"
            /\ Len(s) >= 3
            /\ HexValue(CharAt(s, 2)) >= 0
            /\ HexValue(CharAt(s, 3)) >= 0
         THEN CharAt(Ascii, 16 * HexValue(CharAt(s, 2)) + HexValue(CharAt(s, 3)) - 31)
                  \o Decode(SubSeq(s, 4, Len(s)))
         ELSE Head(s) \o Decode(Tail(s))

\* The text holds "%XY" triplets and unreserved bytes only.
OnlyEncodedBytes(s) ==
    \A i \in 1..Len(s) :
        \/ CharAt(s, i) \in Unreserved
        \/ /\ CharAt(s, i) = "%"
           /\ i + 2 <= Len(s)
           /\ HexValue(CharAt(s, i + 1)) >= 0
           /\ HexValue(CharAt(s, i + 2)) >= 0

\* The text v is the encoding, done once, of the logical text.
EncodedOnce(v, logical) ==
    /\ v = Encode(logical)
    /\ Decode(v) = logical
    /\ OnlyEncodedBytes(v)
    /\ Encode(logical) # logical => v # Encode(Encode(logical))

\* C13: for every key but expand the map holds the encoding, done once, of the
\* logical value of the last call, and the query shows after "$<key>=" that
\* stored value unchanged: the logical value is read back by decoding once,
\* and no reserved byte is left raw, for values holding '%', ' ', '&', '=' or
\* ',' too.  The same text comes out of to_query() on a Filter.
C13_ValuesEncodedOnce ==
    /\ \A k \in (DOMAIN inner) \ {"expand"} : EncodedOnce(inner[k], written[k])
    /\ BuiltOk =>
           LET segs == BuiltSegments IN
               /\ Len(segs) = Cardinality(DOMAIN inner)
               /\ \A i \in 1..Len(segs) :
                      /\ WellFormedSeg(segs[i])
                      /\ SegKey(segs[i]) \in DOMAIN inner
                      /\ SegValue(segs[i]) = inner[SegKey(segs[i])]
                      /\ SegKey(segs[i]) # "expand" =>
                             EncodedOnce(SegValue(segs[i]), written[SegKey(segs[i])])
    /\ built # NotBuilt =>
           \A query \in {to_query(FilterInner, order) : order \in IterOrders(FilterInner)} :
               LET fsegs == Segments(query) IN
                   /\ Len(fsegs) = Cardinality(DOMAIN FilterInner)
                   /\ \A i \in 1..Len(fsegs) :
                          /\ WellFormedSeg(fsegs[i])
                          /\ SegKey(fsegs[i]) \in DOMAIN FilterInner
                          /\ EncodedOnce(SegValue(fsegs[i]), FilterInner[SegKey(fsegs[i])])

\* A filter holding '&', '=' and ',' and an order_by holding '%' and ' ', built.
C13_Witness ==
    /\ BuiltOk
    /\ DOMAIN written = {"filter", "orderby"}
    /\ written["filter"] = "a&b le c=d,e"
    /\ written["orderby"] = "a%b c desc"
    /\ QueryOf(built.value) = "$filter=a%26b%20le%20c%3Dd%2Ce&$orderby=a%25b%20c%20desc"

(* C14 *)

\* The path and query of the URI sent: what follows scheme and authority.
SentPathAndQuery == After(sent[1], Len(UriOf(datasource, "")))

\* One of the orders the keys may be visited in.
RECURSIVE SomeOrder(_)
SomeOrder(keys) ==
    IF keys = {} THEN << >>
    ELSE LET k == CHOOSE x \in keys : TRUE IN <<k>> \o SomeOrder(keys \ {k})

\* C14 in a state: the request holds an empty base path until execute takes
\* it; the URI sent is scheme, authority, the DataSource's base path and then
\* the text the request builds by itself, with its empty base path, so that
\* on any other DataSource the text built differs in the base path only.
C14_BasePathInState ==
    /\ pc \in {"request", "until_ready", "execute"} => base_path = ""
    /\ pc \in {"get", "response", "aggregated"} => sent # << >>
    /\ sent # << >> =>
           LET query == Query(inner, SomeOrder(DOMAIN inner))
               alone == Assemble("", resource_type, id, query)
           IN  /\ base_path = datasource.base_path
               /\ built = Ok(datasource.base_path \o alone)
               /\ sent[1] = UriOf(datasource, datasource.base_path \o alone)
               /\ StartsWith(SentPathAndQuery, datasource.base_path \o "/")
               /\ After(SentPathAndQuery, Len(datasource.base_path)) = alone
               /\ \A other \in DataSources :
                      Assemble(ExecuteBasePath(other, ""), resource_type, id, query)
                          = other.base_path \o alone

\* C14: execute injects the DataSource's base path into a request built with
\* an empty one, the URI sent starts with it and differs between DataSources
\* in it only, and no step of a fetch changes the DataSource's base path,
\* authority or scheme.
C14_BasePathInjected ==
    /\ []C14_BasePathInState
    /\ [][datasource' = datasource]_vars

\* A GetRequest with an option, sent on a DataSource with the base path /api.
C14_Witness ==
    /\ sent = <<"https://oda.ft.dk/api/Dokument(100)?$expand=A&$format=json">>
    /\ datasource.base_path = "/api"
    /\ kind = "Get"

(* C15 *)

\* The one outcome a finished fetch has, read off the first step that failed.
OutcomeDue ==
    IF built.tag = "Err" THEN Err("Uri")
    ELSE IF response = NoResponse \/ response.broken THEN Err("Hyper")
    ELSE IF ~ValidUtf8(WholeBody) THEN Err("Io")
    ELSE IF WholeBody \in Accepted(Shape(kind)) THEN Ok(WholeBody)
    ELSE SerdeError(JsonError(Shape(kind), WholeBody), WholeBody)

\* C15: a fetch sends at most one GET, none when build() failed and one when
\* it gave a path, and never another afterwards; it has no outcome before it
\* ends and ends with one outcome: the whole decoded value when every step
\* went through, else the error of the first step that failed, of one kind.
C15_OneGetOneOutcome ==
    /\ Len(sent) <= 1
    /\ built = NotBuilt => sent = << >>
    /\ built.tag = "Err" => sent = << >> /\ pc = "done"
    /\ built.tag = "Ok" => Len(sent) = 1
    /\ pc # "done" => outcome = NoOutcome
    /\ pc = "done" =>
           /\ outcome = OutcomeDue
           /\ outcome.tag \in {"Ok", "Err"}
           /\ outcome.tag = "Err" => outcome.kind \in {"Uri", "Hyper", "Io", "Serde"}
           /\ outcome.tag = "Ok" =>
                  /\ Len(sent) = 1
                  /\ ~response.broken
                  /\ outcome.value \in Accepted(Shape(kind))

\* A fetch_paged on a rate-limited source that ended with its page, one GET
\* sent.
C15_Witness ==
    /\ pc = "done"
    /\ kind = "List"
    /\ via = "RateLimited"
    /\ outcome.tag = "Ok"
    /\ Len(sent) = 1

====
